---- MODULE Spec2Model ----
(***************************************************************************)
(* Model of the vault-risk-framework calibration pipeline:                 *)
(*   calibration/categorize.py          categorize_exploit,                *)
(*                                      categorize_dataset                 *)
(*   calibration/compute_base_rates.py  compute_base_rates,                *)
(*                                      sensitivity_analysis               *)
(*   examples/vault_risk_profile.py     combine_risks                      *)
(* Strings are TLA+ strings; real numbers are exact rationals (amounts in  *)
(* hundredths, rates and probabilities as normalised fractions).           *)
(***************************************************************************)
EXTENDS Integers, Sequences, FiniteSets, TLC

VARIABLES
    \* categorize_exploit (one call)
    technique, target_type, primitive, cpc,
    \* categorize_dataset followed by compute_base_rates (the __main__ pipeline)
    rows, raw_mode, idx, raw_rows, seen, results, skipped, classified, rates, dpc,
    \* compute_base_rates at two population sizes, and sensitivity_analysis
    records, T, rates_a, rates_b, sweep, ratio_300, ratio_1000, rpc,
    \* combine_risks
    primitives, combined, kpc

clsVars  == <<technique, target_type, primitive, cpc>>
dsVars   == <<rows, raw_mode, idx, raw_rows, seen, results, skipped, classified, rates, dpc>>
rateVars == <<records, T, rates_a, rates_b, sweep, ratio_300, ratio_1000, rpc>>
combVars == <<primitives, combined, kpc>>
vars     == <<clsVars, dsVars, rateVars, combVars>>

-----------------------------------------------------------------------------
(* Bounds of the model *)

\* longest CSV file (rows after the header)
MaxRows == 3
\* longest labelled record list handed to the Rate Estimator
MaxRecords == 4
\* most categories in one risk scenario
MaxCats == 3
\* scenario probabilities are the fractions k / ProbDen
ProbDen == 20

-----------------------------------------------------------------------------
(* Strings: str.lower, str.strip, the `in` substring test *)

UpperAlpha == "ABCDEFGHIJKLMNOPQRSTUVWXYZ"
LowerAlpha == "abcdefghijklmnopqrstuvwxyz"

\* the table of str.lower on the ASCII capitals
LowerTable ==
    [c \in {SubSeq(UpperAlpha, i, i) : i \in 1..Len(UpperAlpha)} |->
        LET i == CHOOSE j \in 1..Len(UpperAlpha) : SubSeq(UpperAlpha, j, j) = c
        IN  SubSeq(LowerAlpha, i, i)]

LowerChar(c) == IF c \in DOMAIN LowerTable THEN LowerTable[c] ELSE c

RECURSIVE lower(_)
lower(s) ==
    IF s = "" THEN ""
    ELSE LowerChar(SubSeq(s, 1, 1)) \o lower(SubSeq(s, 2, Len(s)))

RECURSIVE lstrip(_)
lstrip(s) ==
    IF s # "" /\ SubSeq(s, 1, 1) = " " THEN lstrip(SubSeq(s, 2, Len(s))) ELSE s

RECURSIVE rstrip(_)
rstrip(s) ==
    IF s # "" /\ SubSeq(s, Len(s), Len(s)) = " "
    THEN rstrip(SubSeq(s, 1, Len(s) - 1)) ELSE s

strip(s) == rstrip(lstrip(s))

\* kw in text
In(kw, text) ==
    \E i \in 1..(Len(text) - Len(kw) + 1) : SubSeq(text, i, i + Len(kw) - 1) = kw

\* any(kw in text for kw in kws)
AnyIn(kws, text) == \E k \in 1..Len(kws) : In(kws[k], text)

-----------------------------------------------------------------------------
(* categorize.py: the Classifier *)

Categories == {"CONTRACT", "OPERATIONAL", "ORACLE", "GOVERNANCE"}

PRIMITIVE_KEYWORDS ==
    [ CONTRACT |->
        << "reentrancy", "access control", "logic error", "flash loan",
           "flashloan", "overflow", "underflow", "rounding", "protocol logic",
           "smart contract", "infinite mint", "integer", "input validation",
           "front-end", "uninitialized", "delegate", "self-destruct",
           "constructor", "signature", "replay", "compiler", "language" >>,
      OPERATIONAL |->
        << "key compromise", "private key", "bridge", "frontend", "dns",
           "infrastructure", "social engineering", "insider", "supply chain",
           "compromised", "phishing", "stolen key", "hot wallet", "cold wallet",
           "internal", "employee", "credential" >>,
      ORACLE |->
        << "oracle manipulation", "price feed", "stale price", "twap",
           "oracle failure", "price oracle", "oracle", "price manipulation" >>,
      GOVERNANCE |->
        << "rug pull", "rugpull", "admin key", "malicious upgrade",
           "governance attack", "backdoor", "owner" >> ]

\* text = f"{technique} {target_type}".lower()
ExploitText(tech, tt) == lower(tech \o " " \o tt)

\* a plausible slip: the docstring's fifth label as the fallback
FallbackUncategorized == "UNCATEGORIZED"

\* the value of the last `return`, reached when no keyword matched
Fallback == "CONTRACT"

\* a plausible slip: ORACLE tested before GOVERNANCE
categorize_exploit_oracle_first(tech, tt) ==
    LET text == ExploitText(tech, tt) IN
    IF AnyIn(PRIMITIVE_KEYWORDS["ORACLE"], text) THEN "ORACLE"
    ELSE IF AnyIn(PRIMITIVE_KEYWORDS["GOVERNANCE"], text) THEN "GOVERNANCE"
    ELSE IF AnyIn(PRIMITIVE_KEYWORDS["OPERATIONAL"], text) THEN "OPERATIONAL"
    ELSE IF AnyIn(PRIMITIVE_KEYWORDS["CONTRACT"], text) THEN "CONTRACT"
    ELSE Fallback

categorize_exploit(tech, tt) ==
    LET text == ExploitText(tech, tt) IN
    IF AnyIn(PRIMITIVE_KEYWORDS["GOVERNANCE"], text) THEN "GOVERNANCE"
    ELSE IF AnyIn(PRIMITIVE_KEYWORDS["ORACLE"], text) THEN "ORACLE"
    ELSE IF AnyIn(PRIMITIVE_KEYWORDS["OPERATIONAL"], text) THEN "OPERATIONAL"
    ELSE IF AnyIn(PRIMITIVE_KEYWORDS["CONTRACT"], text) THEN "CONTRACT"
    ELSE Fallback

\* fragments the input strings are assembled from
Fragments ==
    { "", "Admin Key", " reentrancy bug", "stale price feed exploited",
      "Bridge private key", "ORACLE", "own", "er", "Flash Loan attack",
      "unknown exploit", "front", "oracle bridge replay" }

TechniqueInputs == { a \o b : a \in Fragments, b \in Fragments }
TargetInputs    == { "", "DeFi Protocol", "er", "Owner", "end" }

IdleCls == technique = "" /\ target_type = "" /\ primitive = "UNSET" /\ cpc = "idle"

InitCls ==
    /\ technique \in TechniqueInputs
    /\ target_type \in TargetInputs
    /\ primitive = "UNSET"
    /\ cpc = "call"

Classify ==
    /\ cpc = "call"
    /\ primitive' = categorize_exploit(technique, target_type)
    /\ cpc' = "done"
    /\ UNCHANGED <<technique, target_type>>
    /\ UNCHANGED <<dsVars, rateVars, combVars>>

-----------------------------------------------------------------------------
(* Exact arithmetic: non-negative rationals num/den in lowest terms *)

RECURSIVE GCD(_, _)
GCD(a, b) == IF b = 0 THEN a ELSE GCD(b, a % b)

Rat(n, d) == LET g == GCD(n, d) IN [num |-> n \div g, den |-> d \div g]

RatZero == Rat(0, 1)
RatOne  == Rat(1, 1)
\* a result that was never assigned
NoRat == [num |-> 0, den |-> 0]

RatIsZero(x) == x.num = 0
RatPos(x)    == x.num > 0

RatMul(x, y) ==
    LET g1 == GCD(x.num, y.den)
        g2 == GCD(y.num, x.den)
    IN  Rat((x.num \div g1) * (y.num \div g2), (x.den \div g2) * (y.den \div g1))

\* x / y for y > 0 (Python raises ZeroDivisionError for y = 0: see the callers)
RatDiv(x, y) == RatMul(x, [num |-> y.den, den |-> y.num])

RatAdd(x, y) ==
    LET g == GCD(x.den, y.den)
    IN  Rat(x.num * (y.den \div g) + y.num * (x.den \div g), x.den * (y.den \div g))

\* x - y for x >= y
RatSub(x, y) ==
    LET g == GCD(x.den, y.den)
    IN  Rat(x.num * (y.den \div g) - y.num * (x.den \div g), x.den * (y.den \div g))

RatLeq(x, y) == x.num * y.den <= y.num * x.den

\* int(x): the integer part of x >= 0
RatFloor(x) == x.num \div x.den

-----------------------------------------------------------------------------
(* categorize.py: the Dataset Processor *)

\* dict.get(key, default) on a csv.DictReader row (a function on its columns)
Get(row, key, default) == IF key \in DOMAIN row THEN row[key] ELSE default

Digits == "0123456789"
IsDigit(c) == \E i \in 1..Len(Digits) : SubSeq(Digits, i, i) = c
DigitVal(c) == (CHOOSE i \in 1..Len(Digits) : SubSeq(Digits, i, i) = c) - 1

\* float(s) accepts the decimal numerals digits[.digits]; any other text among
\* the cells of this model ("n/a") raises ValueError
IsNumeric(s) ==
    /\ \A i \in 1..Len(s) : IsDigit(SubSeq(s, i, i)) \/ SubSeq(s, i, i) = "."
    /\ Cardinality({i \in 1..Len(s) : SubSeq(s, i, i) = "."}) <= 1
    /\ \E i \in 1..Len(s) : IsDigit(SubSeq(s, i, i))

RECURSIVE IntOf(_)
IntOf(s) ==
    IF s = "" THEN 0
    ELSE IntOf(SubSeq(s, 1, Len(s) - 1)) * 10 + DigitVal(SubSeq(s, Len(s), Len(s)))

\* float(s) in hundredths, for a numeral of at most two decimals
Hundredths(s) ==
    LET dots == {i \in 1..Len(s) : SubSeq(s, i, i) = "."}
        dot  == IF dots = {} THEN Len(s) + 1 ELSE CHOOSE i \in dots : TRUE
        frac == SubSeq(s, dot + 1, Len(s))
        f2   == SubSeq(frac \o "00", 1, 2)
    IN  IntOf(SubSeq(s, 1, dot - 1)) * 100 + IntOf(f2)

\* row.get("amount", row.get("amount_m", 0)): the int default 0 is written "0",
\* which float() maps to the same 0.0
AmountCell(row) == Get(row, "amount", Get(row, "amount_m", "0"))

\* float(cell or 0) raises ValueError
AmountRaises(row) == AmountCell(row) # "" /\ ~IsNumeric(AmountCell(row))

\* float(cell or 0), in hundredths
Amount(row) == IF AmountCell(row) = "" THEN 0 ELSE Hundredths(AmountCell(row))

\* the two thresholds 0.1 and 100_000, in hundredths
DeMinimisMillions == 10
DeMinimisDollars  == 10000000

\* Filter 1: `if "amount_m" in row: amount < 0.1  elif amount < 100_000`
DeMinimis(row) ==
    IF "amount_m" \in DOMAIN row
    THEN Amount(row) < DeMinimisMillions
    ELSE Amount(row) < DeMinimisDollars

CEFI_KEYWORDS ==
    << "centralized exchange", "cefi", "custodian", "mt. gox", "mt gox",
       "bitfinex", "coincheck", "zaif", "cryptopia", "quadrigacx" >>

Technique(row)  == Get(row, "technique", Get(row, "classification", ""))
TargetType(row) == Get(row, "targetType", Get(row, "target_type", ""))

\* Filter 3: CeFi exclusion
CeFi(row) ==
    AnyIn(CEFI_KEYWORDS,
          lower(Get(row, "name", "") \o " " \o Technique(row) \o " " \o TargetType(row)))

\* key = f"{name}|{date}"
DedupKey(row) ==
    strip(lower(Get(row, "name_lower", Get(row, "name", ""))))
        \o "|" \o Get(row, "date", "")

\* a plausible slip: `>=` lets a later row of equal amount replace the kept one
ReplacesExistingOrEqual(amount, existing_amt) == amount >= existing_amt

\* `if amount > existing_amt: seen[key] = row`
ReplacesExisting(amount, existing_amt) == amount > existing_amt

\* seen is the insertion-ordered dict, a sequence of [key, row] items
SeenIndex(s, key) == {i \in 1..Len(s) : s[i].key = key}

DedupStep(s, row) ==
    LET key == DedupKey(row)
        at  == SeenIndex(s, key)
    IN  IF at # {}
        THEN LET i == CHOOSE j \in at : TRUE
             IN  IF ReplacesExisting(Amount(row), Amount(s[i].row))
                 THEN [s EXCEPT ![i] = [key |-> key, row |-> row]]
                 ELSE s
        ELSE Append(s, [key |-> key, row |-> row])

\* list(seen.values())
SeenValues(s) == [i \in 1..Len(s) |-> s[i].row]

\* a plausible slip: deduplicating the unfiltered rows
DedupSourceUnfiltered == rows

\* `for row in raw_rows`: the rows the deduplication loop runs over
DedupSource == raw_rows

\* row["primitive"] = primitive
WithPrimitive(row, p) ==
    [col \in DOMAIN row \cup {"primitive"} |-> IF col = "primitive" THEN p ELSE row[col]]

(* The CSV files of the model.  A header fixes the columns of every row; the
   "id" column is an unrecognised column holding the line number. *)
HeaderDollars  == {"id", "name", "date", "technique", "targetType", "amount"}
HeaderMillions ==
    {"id", "name", "name_lower", "date", "classification", "target_type", "amount_m"}
HeaderBoth     == {"id", "name", "date", "technique", "targetType", "amount", "amount_m"}
Headers == {HeaderDollars, HeaderMillions, HeaderBoth}

Cells(n, d, t, tt, usd, m) ==
    [name |-> n, date |-> d, technique |-> t, target |-> tt, dollars |-> usd, millions |-> m]

CellPool ==
    { Cells("Aave",   "2021-01-05", "reentrancy",            "DeFi", "500000", "0.5"),
      Cells(" AAVE ", "2021-01-05", "Rug Pull by owner",     "",     "750000", "0.75"),
      Cells("aave",   "2021-01-05", "price oracle",          "",     "750000", "0.75"),
      Cells("Aave",   "2021-01-05", "CeFi custodian breach", "",     "900000", "0.9"),
      Cells("Curve",  "2021-01-05", "bridge",                "",     "99999",  "0.09"),
      Cells("Curve",  "2022-02-07", "Flash Loan",            "",     "100000", "0.1"),
      Cells("Curve",  "2022-02-07", "phishing",              "",     "n/a",    "n/a"),
      Cells("Euler",  "2022-02-07", "",                      "",     "",       "") }

MkRow(h, c, i) ==
    [col \in h |->
        CASE col = "id" -> ToString(i)
          [] col = "name" -> c.name
          [] col = "name_lower" -> lower(c.name)
          [] col = "date" -> c.date
          [] col \in {"technique", "classification"} -> c.technique
          [] col \in {"targetType", "target_type"} -> c.target
          [] col = "amount" -> c.dollars
          [] col = "amount_m" -> c.millions]

-----------------------------------------------------------------------------
(* compute_base_rates.py: the Rate Estimator *)

ReportOrder == <<"CONTRACT", "OPERATIONAL", "ORACLE", "GOVERNANCE">>

\* Counter(r["primitive"] for r in results).get(p, 0)
Count(rs, p) == Cardinality({i \in 1..Len(rs) : rs[i]["primitive"] = p})

\* a plausible slip: add-one smoothing of the count
BaseRateSmoothed(n_p, N, Tyears) == RatDiv(Rat(n_p + 1, 1), RatMul(Rat(N, 1), Tyears))

\* n_p / (N * T)
BaseRate(n_p, N, Tyears) == RatDiv(Rat(n_p, 1), RatMul(Rat(N, 1), Tyears))

\* the formatted fields base_rate_pct and base_rate_bps are not modelled
compute_base_rates(rs, N, Tyears) ==
    [p \in {ReportOrder[i] : i \in 1..Len(ReportOrder)} |->
        [n_exploits |-> Count(rs, p), base_rate |-> BaseRate(Count(rs, p), N, Tyears)]]

\* the defaults N = 500, T = 9.56
DefaultN == 500
DefaultT == Rat(956, 100)

NoRates == <<>>

-----------------------------------------------------------------------------
(* categorize_dataset as a state machine: the three loops, one row a step *)

IdleDs ==
    /\ rows = <<>> /\ raw_mode = FALSE /\ idx = 0 /\ raw_rows = <<>> /\ seen = <<>>
    /\ results = <<>> /\ skipped = <<>> /\ classified = <<>> /\ rates = NoRates
    /\ dpc = "idle"

InitDs ==
    /\ \E h \in Headers, n \in 0..MaxRows :
         \E f \in [1..n -> CellPool] : rows = [i \in 1..n |-> MkRow(h, f[i], i)]
    /\ raw_mode \in BOOLEAN
    /\ idx = 1
    /\ raw_rows = <<>> /\ seen = <<>> /\ results = <<>>
    /\ skipped = <<>> /\ classified = <<>> /\ rates = NoRates
    /\ dpc = "read"

\* one iteration of `for row in reader` (lines 107-125); skipped logs each
\* `continue` with its filter, a ValueError of float() ends the call
ReadRow ==
    /\ dpc = "read" /\ idx <= Len(rows)
    /\ LET row == rows[idx] IN
       IF AmountRaises(row)
       THEN /\ dpc' = "crashed"
            /\ UNCHANGED <<idx, raw_rows, skipped>>
       ELSE /\ dpc' = dpc
            /\ idx' = idx + 1
            /\ IF raw_mode /\ DeMinimis(row)
               THEN /\ skipped' = Append(skipped, [row |-> row, by |-> "de_minimis"])
                    /\ raw_rows' = raw_rows
               ELSE IF raw_mode /\ CeFi(row)
               THEN /\ skipped' = Append(skipped, [row |-> row, by |-> "cefi"])
                    /\ raw_rows' = raw_rows
               ELSE /\ raw_rows' = Append(raw_rows, row)
                    /\ skipped' = skipped
    /\ UNCHANGED <<rows, raw_mode, seen, results, classified, rates>>
    /\ UNCHANGED <<clsVars, rateVars, combVars>>

\* the reader is exhausted: `if raw_mode:` (line 127)
EndRead ==
    /\ dpc = "read" /\ idx > Len(rows)
    /\ dpc' = IF raw_mode THEN "dedup" ELSE "categorize"
    /\ idx' = 1
    /\ UNCHANGED <<rows, raw_mode, raw_rows, seen, results, skipped, classified, rates>>
    /\ UNCHANGED <<clsVars, rateVars, combVars>>

\* one iteration of the deduplication loop (lines 130-143)
DedupRow ==
    /\ dpc = "dedup" /\ idx <= Len(DedupSource)
    /\ seen' = DedupStep(seen, DedupSource[idx])
    /\ idx' = idx + 1
    /\ UNCHANGED <<rows, raw_mode, raw_rows, results, skipped, classified, rates, dpc>>
    /\ UNCHANGED <<clsVars, rateVars, combVars>>

\* raw_rows = list(seen.values()) (line 144)
EndDedup ==
    /\ dpc = "dedup" /\ idx > Len(DedupSource)
    /\ raw_rows' = SeenValues(seen)
    /\ dpc' = "categorize"
    /\ idx' = 1
    /\ UNCHANGED <<rows, raw_mode, seen, results, skipped, classified, rates>>
    /\ UNCHANGED <<clsVars, rateVars, combVars>>

\* one iteration of the categorize loop (lines 148-153); classified logs the
\* rows categorize_exploit was called on
CategorizeRow ==
    /\ dpc = "categorize" /\ idx <= Len(raw_rows)
    /\ LET row == raw_rows[idx]
           p   == categorize_exploit(Technique(row), TargetType(row))
       IN  /\ results' = Append(results, WithPrimitive(row, p))
           /\ classified' = Append(classified, row)
    /\ idx' = idx + 1
    /\ UNCHANGED <<rows, raw_mode, raw_rows, seen, skipped, rates, dpc>>
    /\ UNCHANGED <<clsVars, rateVars, combVars>>

\* return results (line 155)
Return ==
    /\ dpc = "categorize" /\ idx > Len(raw_rows)
    /\ dpc' = "done"
    /\ UNCHANGED <<rows, raw_mode, idx, raw_rows, seen, results, skipped, classified, rates>>
    /\ UNCHANGED <<clsVars, rateVars, combVars>>

\* rates = compute_base_rates(results, N=args.N) (compute_base_rates.py:100)
ComputeRates ==
    /\ dpc = "done"
    /\ rates' = compute_base_rates(results, DefaultN, DefaultT)
    /\ dpc' = "rated"
    /\ UNCHANGED <<rows, raw_mode, idx, raw_rows, seen, results, skipped, classified>>
    /\ UNCHANGED <<clsVars, rateVars, combVars>>

-----------------------------------------------------------------------------
(* The Rate Estimator on a labelled record list *)

PopulationSizes == {1, 300, 500, 800, 1000}
SweepSizes == <<300, 500, 800, 1000>>
ObservationYears == {Rat(956, 100), Rat(3, 1)}

IdleRate ==
    /\ records = <<>> /\ T = NoRat /\ rates_a = NoRates /\ rates_b = NoRates
    /\ sweep = <<>> /\ ratio_300 = NoRat /\ ratio_1000 = NoRat /\ rpc = "idle"

InitRate ==
    /\ \E n \in 0..MaxRecords :
         \E f \in [1..n -> Categories] : records = [i \in 1..n |-> [primitive |-> f[i]]]
    /\ T \in ObservationYears
    /\ rates_a = NoRates /\ rates_b = NoRates
    /\ sweep = <<>> /\ ratio_300 = NoRat /\ ratio_1000 = NoRat
    /\ rpc = "start"

\* compute_base_rates called at two population sizes
ComputeBaseRates ==
    /\ rpc = "start"
    /\ \E N1 \in PopulationSizes, N2 \in PopulationSizes :
         /\ rates_a' = [N |-> N1, table |-> compute_base_rates(records, N1, T)]
         /\ rates_b' = [N |-> N2, table |-> compute_base_rates(records, N2, T)]
    /\ rpc' = "computed"
    /\ UNCHANGED <<records, T, sweep, ratio_300, ratio_1000>>
    /\ UNCHANGED <<clsVars, dsVars, combVars>>

\* sensitivity_analysis: one iteration of `for N in [300, 500, 800, 1000]`
SweepRow ==
    /\ rpc \in {"start", "sweep"} /\ Len(sweep) < Len(SweepSizes)
    /\ LET N == SweepSizes[Len(sweep) + 1]
       IN  sweep' = Append(sweep, [N |-> N, table |-> compute_base_rates(records, N, T)])
    /\ rpc' = "sweep"
    /\ UNCHANGED <<records, T, rates_a, rates_b, ratio_300, ratio_1000>>
    /\ UNCHANGED <<clsVars, dsVars, combVars>>

\* sensitivity_analysis lines 78-83: the CONTRACT/OPERATIONAL ratios; a float
\* division by 0.0 raises ZeroDivisionError
ShowRatio ==
    /\ rpc = "sweep" /\ Len(sweep) = Len(SweepSizes)
    /\ LET rates_300  == compute_base_rates(records, 300, T)
           rates_1000 == compute_base_rates(records, 1000, T)
       IN  IF RatIsZero(rates_300["OPERATIONAL"].base_rate)
           THEN /\ rpc' = "crashed"
                /\ UNCHANGED <<ratio_300, ratio_1000>>
           ELSE /\ ratio_300' = RatDiv(rates_300["CONTRACT"].base_rate,
                                       rates_300["OPERATIONAL"].base_rate)
                /\ ratio_1000' = RatDiv(rates_1000["CONTRACT"].base_rate,
                                        rates_1000["OPERATIONAL"].base_rate)
                /\ rpc' = "reported"
    /\ UNCHANGED <<records, T, rates_a, rates_b, sweep>>
    /\ UNCHANGED <<clsVars, dsVars, combVars>>

-----------------------------------------------------------------------------
(* examples/vault_risk_profile.py: the Risk Combiner *)

ScenarioNames == {"contract", "operational", "oracle", "governance"}

\* the numerators k of the scenario probabilities k / ProbDen, all in [0, 1)
ProbNums == {0, 1, 2, ProbDen \div 2, ProbDen - 1}

\* reduce(mul, [1 - x for k, x in ps.items() if k in names], 1)
RECURSIVE ProdComplement(_, _)
ProdComplement(ps, names) ==
    IF names = {} THEN RatOne
    ELSE LET k == CHOOSE x \in names : TRUE
         IN  RatMul(RatSub(RatOne, ps[k]), ProdComplement(ps, names \ {k}))

\* a plausible slip: the product over the other categories left out
MarginalAlone(ps, name) == ps[name]

\* marginal = p * reduce(mul, others, 1)
Marginal(ps, name) == RatMul(ps[name], ProdComplement(ps, DOMAIN ps \ {name}))

PCombined(ps) == RatSub(RatOne, ProdComplement(ps, DOMAIN ps))

\* a plausible slip: `>= 0`, so the division is attempted for p_combined = 0
DividesUnguarded(p_combined) == TRUE

\* `if p_combined > 0`
Divides(p_combined) == RatPos(p_combined)

combine_risks(ps) ==
    LET p_combined == PCombined(ps) IN
    IF \E name \in DOMAIN ps : Divides(p_combined) /\ RatIsZero(p_combined)
    THEN [raised |-> "ZeroDivisionError"]
    ELSE [ raised |-> "",
           combined_risk |-> p_combined,
           odds |-> IF RatPos(p_combined)
                    THEN "1 in " \o ToString(RatFloor(RatDiv(RatOne, p_combined)))
                    ELSE "negligible",
           contributions |->
               [name \in DOMAIN ps |->
                   IF Divides(p_combined)
                   THEN RatDiv(Marginal(ps, name), p_combined)
                   ELSE RatZero] ]

IdleComb == primitives = <<>> /\ combined = <<>> /\ kpc = "idle"

InitComb ==
    /\ \E names \in SUBSET ScenarioNames :
         /\ Cardinality(names) <= MaxCats
         /\ \E f \in [names -> ProbNums] :
              primitives = [name \in names |-> Rat(f[name], ProbDen)]
    /\ combined = <<>>
    /\ kpc = "call"

CombineRisks ==
    /\ kpc = "call"
    /\ combined' = combine_risks(primitives)
    /\ kpc' = IF combined'.raised = "" THEN "done" ELSE "crashed"
    /\ UNCHANGED primitives
    /\ UNCHANGED <<clsVars, dsVars, rateVars>>

-----------------------------------------------------------------------------
(* Specifications, one per component *)

InitClassifier == InitCls /\ IdleDs /\ IdleRate /\ IdleComb
NextClassifier == Classify
SpecClassifier == InitClassifier /\ [][NextClassifier]_vars

InitDataset == IdleCls /\ InitDs /\ IdleRate /\ IdleComb
NextDataset ==
    \/ ReadRow \/ EndRead \/ DedupRow \/ EndDedup
    \/ CategorizeRow \/ Return \/ ComputeRates
SpecDataset == InitDataset /\ [][NextDataset]_vars

InitRates == IdleCls /\ IdleDs /\ InitRate /\ IdleComb
NextRates == ComputeBaseRates \/ SweepRow \/ ShowRatio
SpecRates == InitRates /\ [][NextRates]_vars

InitCombiner == IdleCls /\ IdleDs /\ IdleRate /\ InitComb
NextCombiner == CombineRisks
SpecCombiner == InitCombiner /\ [][NextCombiner]_vars

-----------------------------------------------------------------------------
(* Claims about the Classifier, under SpecClassifier *)

Precedence == <<"GOVERNANCE", "ORACLE", "OPERATIONAL", "CONTRACT">>

HasKeyword(cat) ==
    \E k \in 1..Len(PRIMITIVE_KEYWORDS[cat]) :
        In(PRIMITIVE_KEYWORDS[cat][k], lower(technique \o " " \o target_type))

-----------------------------------------------------------------------------
(* Claims about the Risk Combiner, under SpecCombiner *)

RECURSIVE SumContributions(_, _)
SumContributions(c, names) ==
    IF names = {} THEN RatZero
    ELSE LET k == CHOOSE x \in names : TRUE
         IN  RatAdd(c[k], SumContributions(c, names \ {k}))

ContributionsInUnitInterval ==
    \A name \in DOMAIN primitives :
        /\ RatLeq(RatZero, combined.contributions[name])
        /\ RatLeq(combined.contributions[name], RatOne)

NonZeroInputs == {name \in DOMAIN primitives : RatPos(primitives[name])}

C3_DegenerateScenario ==
    (kpc # "call" /\ NonZeroInputs = {}) =>
        /\ kpc = "done"
        /\ combined.combined_risk = RatZero
        /\ DOMAIN combined.contributions = DOMAIN primitives
        /\ \A name \in DOMAIN primitives : combined.contributions[name] = RatZero
        /\ combined.odds = "negligible"

C3_Witness ==
    /\ kpc = "done"
    /\ Cardinality(DOMAIN primitives) = 2
    /\ NonZeroInputs = {}
    /\ combined.odds = "negligible"

C3_WitnessEmpty ==
    kpc = "done" /\ DOMAIN primitives = {} /\ combined.odds = "negligible"

-----------------------------------------------------------------------------
(* Claims about the Dataset Processor, under SpecDataset *)

\* the input lines the reading loop has gone through
Processed == IF dpc \in {"read", "crashed"} THEN 1..(idx - 1) ELSE 1..Len(rows)

SkippedIds == {skipped[j].row["id"] : j \in 1..Len(skipped)}
SkippedBy(f) == {skipped[j].row["id"] : j \in {k \in 1..Len(skipped) : skipped[k].by = f}}

\* the input lines that passed the filters of the reading loop
Survivors == {i \in Processed : rows[i]["id"] \notin SkippedIds}

Returned == dpc \in {"done", "rated"}

\* C4: a row with a non-numeric amount never aborts the batch, in raw and in
\* non-raw mode: the call returns, and in non-raw mode with every input row.
C4_MalformedAmountAbsorbed ==
    /\ dpc # "crashed"
    /\ (Returned /\ ~raw_mode) => Len(results) = Len(rows)

\* the lines of surv with the key of line i
Group(surv, keys, i) == {j \in surv : keys[j] = keys[i]}
GroupMax(g, amts) == CHOOSE a \in {amts[j] : j \in g} : \A j \in g : amts[j] <= a
\* the first-seen line of g among those of the largest amount
GroupKeeper(g, amts) ==
    LET top == GroupMax(g, amts)
    IN  CHOOSE j \in g : amts[j] = top /\ \A k \in g : amts[k] = top => j <= k

\* C5: in raw mode the output holds, for every group of surviving rows with
\* the same key, exactly one row: the first-seen row among those of the
\* group's largest amount, whatever the input order; no two output rows share
\* a key.
C5_DedupKeepsFirstMaximum ==
    (Returned /\ raw_mode) =>
        LET surv  == Survivors
            keys  == [i \in 1..Len(rows) |-> DedupKey(rows[i])]
            amts  == [i \in 1..Len(rows) |-> Amount(rows[i])]
            okeys == [k \in 1..Len(results) |-> DedupKey(results[k])]
        IN  /\ \A i \in surv :
                 LET g == Group(surv, keys, i) IN
                 /\ Cardinality({k \in 1..Len(results) : okeys[k] = keys[i]}) = 1
                 /\ \E k \in 1..Len(results) :
                      /\ results[k]["id"] = rows[GroupKeeper(g, amts)]["id"]
                      /\ Amount(results[k]) = GroupMax(g, amts)
            /\ \A k \in 1..Len(results) :
                 \E i \in surv : results[k]["id"] = rows[i]["id"]

\* three rows of one key, the first the smallest, the other two tied: the
\* second is kept
C5_Witness ==
    /\ Returned /\ raw_mode
    /\ Len(rows) = 3 /\ skipped = <<>> /\ Len(results) = 1
    /\ Amount(rows[1]) < Amount(rows[2]) /\ Amount(rows[2]) = Amount(rows[3])
    /\ rows[2]["name"] # rows[3]["name"]
    /\ results[1]["id"] = "2"

\* the amount field that was used: "amount" when present, else "amount_m"
UsedField(row) ==
    IF "amount" \in DOMAIN row THEN "amount"
    ELSE IF "amount_m" \in DOMAIN row THEN "amount_m" ELSE "none"

\* strictly below $100,000, in the unit of the field that was used
BelowDeMinimis(row) ==
    CASE UsedField(row) = "amount"   -> Amount(row) < 100000 * 100
      [] UsedField(row) = "amount_m" -> Amount(row) * 10 < 100
      [] OTHER -> TRUE

\* C6: in raw mode a row is dropped by the de-minimis filter if and only if
\* its resolved amount is strictly below $100,000, in the unit of the amount
\* field that was used.
C6_DeMinimisOfUsedField ==
    raw_mode =>
        \A i \in Processed :
            (rows[i]["id"] \in SkippedBy("de_minimis")) <=> BelowDeMinimis(rows[i])

RECURSIVE SumExploits(_, _)
SumExploits(table, cats) ==
    IF cats = {} THEN 0
    ELSE LET c == CHOOSE x \in cats : TRUE
         IN  table[c].n_exploits + SumExploits(table, cats \ {c})

-----------------------------------------------------------------------------
(* Claims about the Rate Estimator, under SpecRates *)

NumberOf(p) == Cardinality({i \in 1..Len(records) : records[i].primitive = p})

RateRatio(r, p, q) == RatDiv(r.table[p].base_rate, r.table[q].base_rate)

\* C7: rate = count / (N * T), and for any two categories p, q of nonzero
\* count the ratio rate(p)/rate(q) is the same at both population sizes, equal
\* to count(p)/count(q).
C7_RatioInvariance ==
    /\ rpc = "computed" =>
         /\ \A p \in Categories :
              /\ RatMul(rates_a.table[p].base_rate, RatMul(Rat(rates_a.N, 1), T))
                     = Rat(NumberOf(p), 1)
              /\ RatMul(rates_b.table[p].base_rate, RatMul(Rat(rates_b.N, 1), T))
                     = Rat(NumberOf(p), 1)
         /\ \A p, q \in Categories :
              (NumberOf(p) > 0 /\ NumberOf(q) > 0) =>
                  /\ RateRatio(rates_a, p, q) = RateRatio(rates_b, p, q)
                  /\ RateRatio(rates_a, p, q) = Rat(NumberOf(p), NumberOf(q))
    /\ rpc = "reported" =>
         /\ ratio_300 = ratio_1000
         /\ ratio_300 = Rat(NumberOf("CONTRACT"), NumberOf("OPERATIONAL"))

C7_Witness ==
    /\ rpc = "computed"
    /\ rates_a.N = 300 /\ rates_b.N = 1000
    /\ NumberOf("CONTRACT") = 3 /\ NumberOf("OPERATIONAL") = 1
    /\ RateRatio(rates_a, "CONTRACT", "OPERATIONAL") = Rat(3, 1)
    /\ rates_a.table["CONTRACT"].base_rate # rates_b.table["CONTRACT"].base_rate

C7_WitnessReported ==
    rpc = "reported" /\ ratio_300 = Rat(2, 1) /\ ratio_1000 = Rat(2, 1)

\* C8: for an empty record list the Rate Estimator, compute_base_rates and the
\* sensitivity sweep, reports count 0 and rate 0 for every category and
\* divides by zero nowhere.
C8_EmptyRecordsNoDivisionByZero ==
    records = <<>> =>
        /\ rpc # "crashed"
        /\ rpc = "computed" =>
             \A p \in Categories :
                 /\ rates_a.table[p].n_exploits = 0
                 /\ rates_a.table[p].base_rate = RatZero
        /\ \A k \in 1..Len(sweep) : \A p \in Categories :
             /\ sweep[k].table[p].n_exploits = 0
             /\ sweep[k].table[p].base_rate = RatZero

====
